---- MODULE Spec2Model ----
(***************************************************************************)
(* Model of the GaryCooper coop controller sketch: the error-flag          *)
(* register (reportError / sendErrors), the versioned settings load/save   *)
(* protocol and the cooperative control loop with its two polled timers.   *)
(***************************************************************************)
EXTENDS Integers, Sequences, FiniteSets, TLC

VARIABLES
    s_errorFlags,          \* static uint16_t s_errorFlags
    BEEP_ON_ERROR,         \* build flag tested by #ifdef in reportError
    settingsLoaded,        \* bool settingsLoaded
    eeprom,                \* persisted region: version byte and setting cells
    savePos,               \* cursor of g_saveController
    doorSettings,          \* settings held by g_doorController
    lightSettings,         \* settings held by g_lightController
    gpsAvail,              \* bytes waiting in GPS_SERIAL
    s_gpsDataStreamActive, \* static bool s_gpsDataStreamActive
    m_GPSLocked,           \* g_GPSParser.getGPSData().m_GPSLocked
    g_heartbeat,           \* bool g_heartbeat
    g_telemetryUpdateTimer,\* CMilliTimer: period of the last start, state
    g_timeCheckTimer,      \* CMilliTimer: period of the last start, state
    calls,                 \* the last two reportError calls, oldest first
    lastSet,               \* per kind: was the most recent report a set?
    trace                  \* observable events of the most recent operation

vars == <<s_errorFlags, BEEP_ON_ERROR, settingsLoaded, eeprom, savePos,
          doorSettings, lightSettings, gpsAvail, s_gpsDataStreamActive,
          m_GPSLocked, g_heartbeat, g_telemetryUpdateTimer, g_timeCheckTimer,
          calls, lastSet, trace>>

----------------------------------------------------------------------------
(* 16-bit word arithmetic, as the C operators &, | and ~ compute it *)

WordBits == 16

RECURSIVE Pow2(_)
Pow2(n) == IF n = 0 THEN 1 ELSE 2 * Pow2(n - 1)

RECURSIVE BitAndN(_, _, _)
BitAndN(a, b, n) ==
    IF n = 0 \/ a = 0 \/ b = 0 THEN 0
    ELSE (IF a % 2 = 1 /\ b % 2 = 1 THEN 1 ELSE 0)
         + 2 * BitAndN(a \div 2, b \div 2, n - 1)

RECURSIVE BitOrN(_, _, _)
BitOrN(a, b, n) ==
    IF n = 0 \/ (a = 0 /\ b = 0) THEN 0
    ELSE (IF a % 2 = 1 \/ b % 2 = 1 THEN 1 ELSE 0)
         + 2 * BitOrN(a \div 2, b \div 2, n - 1)

BitAnd(a, b) == BitAndN(a, b, WordBits)
BitOr(a, b)  == BitOrN(a, b, WordBits)
BitNot(a)    == (Pow2(WordBits) - 1) - (a % Pow2(WordBits))

----------------------------------------------------------------------------
(* Error kinds: the case labels of reportError's switch *)

ErrorKinds ==
    { "telemetry_error_GPS_no_data",
      "telemetry_error_GPS_bad_data",
      "telemetry_error_GPS_not_locked",
      "telemetry_error_suncalc_invalid_time",
      "telemetry_error_no_door_motor",
      "telemetry_error_door_motor_unknown_state",
      "telemetry_error_door_motor_unknown_not_responding" }

\* enum telemetryErrorE (TelemetryTags.h): each kind one bit of the word
telemetryErrorE(k) ==
    CASE k = "telemetry_error_GPS_no_data"                       -> 1
      [] k = "telemetry_error_GPS_bad_data"                      -> 2
      [] k = "telemetry_error_GPS_not_locked"                    -> 4
      [] k = "telemetry_error_suncalc_invalid_time"              -> 8
      [] k = "telemetry_error_no_door_motor"                     -> 16
      [] k = "telemetry_error_door_motor_unknown_state"          -> 32
      [] k = "telemetry_error_door_motor_unknown_not_responding" -> 64

\* the switch with one beepCount copied from the case above it
beepCountOf_Shared(k) ==
    CASE k = "telemetry_error_GPS_no_data"                       -> 1
      [] k = "telemetry_error_GPS_bad_data"                      -> 1
      [] k = "telemetry_error_GPS_not_locked"                    -> 3
      [] k = "telemetry_error_suncalc_invalid_time"              -> 4
      [] k = "telemetry_error_no_door_motor"                     -> 5
      [] k = "telemetry_error_door_motor_unknown_state"          -> 6
      [] k = "telemetry_error_door_motor_unknown_not_responding" -> 7
      [] OTHER                                                   -> 0

\* the switch of reportError: beepCount stays 0 in the default branch
beepCountOf(k) ==
    CASE k = "telemetry_error_GPS_no_data"                       -> 1
      [] k = "telemetry_error_GPS_bad_data"                      -> 2
      [] k = "telemetry_error_GPS_not_locked"                    -> 3
      [] k = "telemetry_error_suncalc_invalid_time"              -> 4
      [] k = "telemetry_error_no_door_motor"                     -> 5
      [] k = "telemetry_error_door_motor_unknown_state"          -> 6
      [] k = "telemetry_error_door_motor_unknown_not_responding" -> 7
      [] OTHER                                                   -> 0

DiagEvent(k, set) == [ev |-> "diag", kind |-> k, set |-> set]
BeepEvent(k)      == [ev |-> "beep", kind |-> k, n |-> beepCountOf(k)]

\* the history kept of reportError: only the last two calls are remembered
PushCall(cs, c) == IF Len(cs) = 2 THEN <<cs[2], c>> ELSE Append(cs, c)

\* what a call leaves behind: the word, the two histories, the output
Reported(m, k, set, flags, out) ==
    [m EXCEPT !.flags   = flags,
              !.calls   = PushCall(m.calls,
                              [kind |-> k, set |-> set, pre |-> m.flags,
                               post |-> flags, out |-> out]),
              !.lastSet = [m.lastSet EXCEPT ![k] = set],
              !.out     = m.out \o out]

\* reportError without the "don't keep re-setting them" early return
reportError_NoSetGuard(m, _errorTag, _set) ==
    LET tag == telemetryErrorE(_errorTag) IN
    IF ~_set /\ BitAnd(m.flags, tag) = 0
    THEN Reported(m, _errorTag, _set, m.flags, << >>)
    ELSE Reported(m, _errorTag, _set,
             IF _set THEN BitOr(m.flags, tag)
                     ELSE BitAnd(m.flags, BitNot(tag)),
             (IF _set /\ m.beepOn THEN <<BeepEvent(_errorTag)>> ELSE << >>)
                 \o <<DiagEvent(_errorTag, _set)>>)

\* reportError masking with the tag instead of its complement
reportError_MaskWithTag(m, _errorTag, _set) ==
    LET tag == telemetryErrorE(_errorTag) IN
    IF _set /\ BitAnd(m.flags, tag) # 0
    THEN Reported(m, _errorTag, _set, m.flags, << >>)
    ELSE IF ~_set /\ BitAnd(m.flags, tag) = 0
    THEN Reported(m, _errorTag, _set, m.flags, << >>)
    ELSE Reported(m, _errorTag, _set,
             IF _set THEN BitOr(m.flags, tag)
                     ELSE BitAnd(m.flags, tag),
             (IF _set /\ m.beepOn THEN <<BeepEvent(_errorTag)>> ELSE << >>)
                 \o <<DiagEvent(_errorTag, _set)>>)

\* reportError clearing the whole word when one kind is cleared
reportError_ClearAll(m, _errorTag, _set) ==
    LET tag == telemetryErrorE(_errorTag) IN
    IF _set /\ BitAnd(m.flags, tag) # 0
    THEN Reported(m, _errorTag, _set, m.flags, << >>)
    ELSE IF ~_set /\ BitAnd(m.flags, tag) = 0
    THEN Reported(m, _errorTag, _set, m.flags, << >>)
    ELSE Reported(m, _errorTag, _set,
             IF _set THEN BitOr(m.flags, tag) ELSE 0,
             (IF _set /\ m.beepOn THEN <<BeepEvent(_errorTag)>> ELSE << >>)
                 \o <<DiagEvent(_errorTag, _set)>>)

\* void reportError(telemetryErrorE _errorTag, bool _set), run on the
\* machine state m: early return when the bit already has the value asked
\* for, otherwise update the word, beep (set only, BEEP_ON_ERROR builds
\* only) and print the console line
reportError(m, _errorTag, _set) ==
    LET tag == telemetryErrorE(_errorTag) IN
    IF _set /\ BitAnd(m.flags, tag) # 0
    THEN Reported(m, _errorTag, _set, m.flags, << >>)
    ELSE IF ~_set /\ BitAnd(m.flags, tag) = 0
    THEN Reported(m, _errorTag, _set, m.flags, << >>)
    ELSE Reported(m, _errorTag, _set,
             IF _set THEN BitOr(m.flags, tag)
                     ELSE BitAnd(m.flags, BitNot(tag)),
             (IF _set /\ m.beepOn THEN <<BeepEvent(_errorTag)>> ELSE << >>)
                 \o <<DiagEvent(_errorTag, _set)>>)

\* sendErrors leaving its transmission open
sendErrors_NoEnd(m) ==
    [m EXCEPT !.out = m.out \o
        << [ev |-> "transmissionStart"],
           [ev |-> "sendTerm", term |-> "telemetry_tag_error_flags"],
           [ev |-> "sendTerm", term |-> m.flags] >>]

\* sendErrors sending a cleared word instead of the register
sendErrors_NoValue(m) ==
    [m EXCEPT !.out = m.out \o
        << [ev |-> "transmissionStart"],
           [ev |-> "sendTerm", term |-> "telemetry_tag_error_flags"],
           [ev |-> "sendTerm", term |-> 0],
           [ev |-> "transmissionEnd"] >>]

\* void sendErrors()
sendErrors(m) ==
    [m EXCEPT !.out = m.out \o
        << [ev |-> "transmissionStart"],
           [ev |-> "sendTerm", term |-> "telemetry_tag_error_flags"],
           [ev |-> "sendTerm", term |-> m.flags],
           [ev |-> "transmissionEnd"] >>]

----------------------------------------------------------------------------
(* Settings store: version byte, cursor, one cell per sub-component *)

GARYCOOPER_DATA_VERSION == 1

MaxVersion == 2                  \* stored version bytes range over 0..MaxVersion
MaxSetting == 2                  \* setting values range over 0..MaxSetting
StoredVersions == 0 .. MaxVersion
SettingValues  == 0 .. MaxSetting

DoorDefault  == 1                \* default held by the door controller
LightDefault == 2                \* default held by the light controller
StoreStart   == 1                \* cursor position after rewind
BlankCells   == <<0, 0>>         \* a region never written

\* CSaveController::getDataVersion
getDataVersion(m) == m.eeprom.version

\* CSaveController::updateHeader
updateHeader(m, v) ==
    [m EXCEPT !.eeprom.version = v,
              !.out = m.out \o <<[ev |-> "updateHeader", ver |-> v]>>]

\* CSaveController::rewind
rewind(m) ==
    [m EXCEPT !.pos = StoreStart,
              !.out = m.out \o <<[ev |-> "rewind"]>>]

\* CDoorController::saveSettings(store, _defaults)
doorSaveSettings(m, _defaults) ==
    LET v == IF _defaults THEN DoorDefault ELSE m.door IN
    [m EXCEPT !.eeprom.cells[m.pos] = v,
              !.pos = m.pos + 1,
              !.out = m.out \o <<[ev |-> "door.saveSettings", pos |-> m.pos,
                                  val |-> v, defaults |-> _defaults,
                                  old |-> m.eeprom.cells[m.pos]]>>]

\* CLightController::saveSettings(store, _defaults)
lightSaveSettings(m, _defaults) ==
    LET v == IF _defaults THEN LightDefault ELSE m.light IN
    [m EXCEPT !.eeprom.cells[m.pos] = v,
              !.pos = m.pos + 1,
              !.out = m.out \o <<[ev |-> "light.saveSettings", pos |-> m.pos,
                                  val |-> v, defaults |-> _defaults,
                                  old |-> m.eeprom.cells[m.pos]]>>]

\* CDoorController::loadSettings(store)
doorLoadSettings(m) ==
    [m EXCEPT !.door = m.eeprom.cells[m.pos],
              !.pos = m.pos + 1,
              !.out = m.out \o <<[ev |-> "door.loadSettings", pos |-> m.pos,
                                  val |-> m.eeprom.cells[m.pos],
                                  ver |-> m.eeprom.version]>>]

\* CLightController::loadSettings(store)
lightLoadSettings(m) ==
    [m EXCEPT !.light = m.eeprom.cells[m.pos],
              !.pos = m.pos + 1,
              !.out = m.out \o <<[ev |-> "light.loadSettings", pos |-> m.pos,
                                  val |-> m.eeprom.cells[m.pos],
                                  ver |-> m.eeprom.version]>>]

\* saveSettings without the header update
saveSettings_NoHeader(m, _defaults) ==
    LET m2 == rewind(m)
        m3 == doorSaveSettings(m2, _defaults)
    IN  lightSaveSettings(m3, _defaults)

\* void saveSettings(bool _defaults)
saveSettings(m, _defaults) ==
    LET m1 == updateHeader(m, GARYCOOPER_DATA_VERSION)
        m2 == rewind(m1)
        m3 == doorSaveSettings(m2, _defaults)
    IN  lightSaveSettings(m3, _defaults)

\* loadSettings without the default-write pass on a version mismatch
loadSettings_NoDefaults(m) ==
    LET m2 == rewind(m)
        m3 == doorLoadSettings(m2)
    IN  lightLoadSettings(m3)

\* loadSettings writing the defaults whatever the stored version is
loadSettings_AlwaysDefaults(m) ==
    LET m1 == saveSettings(m, TRUE)
        m2 == rewind(m1)
        m3 == doorLoadSettings(m2)
    IN  lightLoadSettings(m3)

\* loadSettings visiting the light controller before the door controller
loadSettings_LightFirst(m) ==
    LET headerVersion == getDataVersion(m)
        m1 == IF headerVersion # GARYCOOPER_DATA_VERSION
              THEN saveSettings(m, TRUE)
              ELSE m
        m2 == rewind(m1)
        m3 == lightLoadSettings(m2)
    IN  doorLoadSettings(m3)

\* void loadSettings()
loadSettings(m) ==
    LET headerVersion == getDataVersion(m)
        m1 == IF headerVersion # GARYCOOPER_DATA_VERSION
              THEN saveSettings(m, TRUE)
              ELSE m
        m2 == rewind(m1)
        m3 == doorLoadSettings(m2)
    IN  lightLoadSettings(m3)

----------------------------------------------------------------------------
(* Timers and the control loop *)

MILLIS_PER_SECOND == 1000
TIME_CHECK_UPDATE_NO_GPS_LOCK == 5 * MILLIS_PER_SECOND
TIME_CHECK_UPDATE_GPS_LOCK    == 60 * MILLIS_PER_SECOND
TELEMETRY_UPDATE              == 2 * MILLIS_PER_SECOND

GPSDataSize == 256               \* sizeof(GPSData)
MaxPending  == 256               \* most bytes left waiting in GPS_SERIAL

\* CMilliTimer::start(period)
TimerStart(period) == [period |-> period, state |-> "running"]

StartEvent(name, t, period) ==
    [ev |-> "timer.start", timer |-> name, period |-> period, old |-> t.period]

\* the gate without its latch: settingsLoaded is never set
loopLoad_NoLatch(m) ==
    IF ~m.loaded
    THEN loadSettings(m)
    ELSE m

\* if(!settingsLoaded) { loadSettings(); settingsLoaded = true; }
loopLoad(m) ==
    IF ~m.loaded
    THEN [loadSettings(m) EXCEPT !.loaded = TRUE]
    ELSE m

\* the drain as an if instead of a while: one read per iteration
loopDrain_Once(m, lockAfter) ==
    IF m.avail = 0 THEN m
    ELSE LET avail == m.avail
             GPSDataLen == IF avail > GPSDataSize - 1
                           THEN GPSDataSize - 1 ELSE avail
         IN  [m EXCEPT !.avail  = avail - GPSDataLen,
                       !.locked = lockAfter,
                       !.active = TRUE,
                       !.out    = m.out \o
                           <<[ev |-> "parse", len |-> GPSDataLen,
                              locked |-> lockAfter]>>]

\* while(GPS_SERIAL.available()) { ... }: read at most sizeof(GPSData) - 1
\* bytes, parse them (the parser leaves the fix locked or not: lockAfter),
\* note the active stream, and go round again while bytes remain
RECURSIVE loopDrain(_, _)
loopDrain(m, lockAfter) ==
    IF m.avail = 0 THEN m
    ELSE LET avail == m.avail
             GPSDataLen == IF avail > GPSDataSize - 1
                           THEN GPSDataSize - 1 ELSE avail
         IN  loopDrain(
                 [m EXCEPT !.avail  = avail - GPSDataLen,
                           !.locked = lockAfter,
                           !.active = TRUE,
                           !.out    = m.out \o
                               <<[ev |-> "parse", len |-> GPSDataLen,
                                  locked |-> lockAfter]>>],
                 lockAfter)

\* g_telemetryComm.tick(); g_telemetry.tick(); g_beepController.tick();
\* g_doorController.tick();
loopTicks(m) ==
    [m EXCEPT !.out = m.out \o
        << [ev |-> "g_telemetryComm.tick"], [ev |-> "g_telemetry.tick"],
           [ev |-> "g_beepController.tick"], [ev |-> "g_doorController.tick"] >>]

\* the telemetry task restarting its timer last, after the hooks
loopTelemetry_RestartLast(m) ==
    IF m.telTimer.state = "expired"
    THEN LET m1 == [m EXCEPT
                 !.heartbeat = ~m.heartbeat,
                 !.out = m.out \o
                    << [ev |-> "heartbeat", on |-> ~m.heartbeat],
                       [ev |-> "transmissionStart"],
                       [ev |-> "sendTerm", term |-> "telemetry_tag_version"],
                       [ev |-> "sendTerm", term |-> "TELEMETRY_VERSION_01"],
                       [ev |-> "transmissionEnd"] >>]
             m2 == sendErrors(m1)
         IN  [m2 EXCEPT
                 !.telTimer = TimerStart(TELEMETRY_UPDATE),
                 !.out = m2.out \o
                 << [ev |-> "g_sunCalc.sendTelemetry"],
                    [ev |-> "g_doorController.sendTelemetry"],
                    [ev |-> "g_lightController.sendTelemetry"],
                    StartEvent("g_telemetryUpdateTimer", m.telTimer,
                               TELEMETRY_UPDATE) >>]
    ELSE m

\* if(g_telemetryUpdateTimer.getState() == CMilliTimer::expired) { ... }
loopTelemetry(m) ==
    IF m.telTimer.state = "expired"
    THEN LET m1 == [m EXCEPT
                 !.heartbeat = ~m.heartbeat,
                 !.telTimer  = TimerStart(TELEMETRY_UPDATE),
                 !.out = m.out \o
                    << [ev |-> "heartbeat", on |-> ~m.heartbeat],
                       StartEvent("g_telemetryUpdateTimer", m.telTimer,
                                  TELEMETRY_UPDATE),
                       [ev |-> "transmissionStart"],
                       [ev |-> "sendTerm", term |-> "telemetry_tag_version"],
                       [ev |-> "sendTerm", term |-> "TELEMETRY_VERSION_01"],
                       [ev |-> "transmissionEnd"] >>]
             m2 == sendErrors(m1)
         IN  [m2 EXCEPT !.out = m2.out \o
                 << [ev |-> "g_sunCalc.sendTelemetry"],
                    [ev |-> "g_doorController.sendTelemetry"],
                    [ev |-> "g_lightController.sendTelemetry"] >>]
    ELSE m

\* the two periods the wrong way round
timeCheckPeriod_Swapped(m) ==
    IF m.locked THEN TIME_CHECK_UPDATE_NO_GPS_LOCK
                ELSE TIME_CHECK_UPDATE_GPS_LOCK

\* the period chosen by if(g_GPSParser.getGPSData().m_GPSLocked)
timeCheckPeriod(m) ==
    IF m.locked THEN TIME_CHECK_UPDATE_GPS_LOCK
                ELSE TIME_CHECK_UPDATE_NO_GPS_LOCK

\* the silence handling without its else branch: the error is never cleared
timeCheckSilence_NoClear(m) ==
    IF ~m.active
    THEN reportError([m EXCEPT !.locked = FALSE,
                               !.out = m.out \o <<[ev |-> "gps.clear"]>>],
                     "telemetry_error_GPS_no_data", TRUE)
    ELSE m

\* if(!s_gpsDataStreamActive) { clear(); reportError(no_data, true); }
\* else reportError(no_data, false);
timeCheckSilence(m) ==
    IF ~m.active
    THEN reportError([m EXCEPT !.locked = FALSE,
                               !.out = m.out \o <<[ev |-> "gps.clear"]>>],
                     "telemetry_error_GPS_no_data", TRUE)
    ELSE reportError(m, "telemetry_error_GPS_no_data", FALSE)

\* the time-check task calling checkTime whatever processGPSData returns
loopTimeCheck_AlwaysCheck(m, valid) ==
    IF m.tcTimer.state = "expired"
    THEN LET period == timeCheckPeriod(m)
             m1 == [m EXCEPT
                 !.tcTimer = TimerStart(period),
                 !.out = m.out \o
                    <<StartEvent("g_timeCheckTimer", m.tcTimer, period)>>]
             m2 == timeCheckSilence(m1)
             m3 == [m2 EXCEPT
                 !.active = FALSE,
                 !.out = m2.out \o
                    <<[ev |-> "processGPSData", valid |-> valid]>>]
         IN  [m3 EXCEPT !.out = m3.out \o
                 << [ev |-> "g_doorController.checkTime"],
                    [ev |-> "g_lightController.checkTime"] >>]
    ELSE m

\* the time-check task choosing its period after the silence handling
loopTimeCheck_SampleAfterClear(m, valid) ==
    IF m.tcTimer.state = "expired"
    THEN LET m2 == timeCheckSilence(m)
             period == timeCheckPeriod(m2)
             m1 == [m2 EXCEPT
                 !.tcTimer = TimerStart(period),
                 !.out = m2.out \o
                    <<StartEvent("g_timeCheckTimer", m.tcTimer, period)>>]
             m3 == [m1 EXCEPT
                 !.active = FALSE,
                 !.out = m1.out \o
                    <<[ev |-> "processGPSData", valid |-> valid]>>]
         IN  IF valid
             THEN [m3 EXCEPT !.out = m3.out \o
                      << [ev |-> "g_doorController.checkTime"],
                         [ev |-> "g_lightController.checkTime"] >>]
             ELSE m3
    ELSE m

\* if(g_timeCheckTimer.getState() == CMilliTimer::expired) { ... }; valid is
\* what g_sunCalc.processGPSData returns
loopTimeCheck(m, valid) ==
    IF m.tcTimer.state = "expired"
    THEN LET period == timeCheckPeriod(m)
             m1 == [m EXCEPT
                 !.tcTimer = TimerStart(period),
                 !.out = m.out \o
                    <<StartEvent("g_timeCheckTimer", m.tcTimer, period)>>]
             m2 == timeCheckSilence(m1)
             m3 == [m2 EXCEPT
                 !.active = FALSE,
                 !.out = m2.out \o
                    <<[ev |-> "processGPSData", valid |-> valid]>>]
         IN  IF valid
             THEN [m3 EXCEPT !.out = m3.out \o
                      << [ev |-> "g_doorController.checkTime"],
                         [ev |-> "g_lightController.checkTime"] >>]
             ELSE m3
    ELSE m

\* a loop that skips its timed tasks while any error flag is standing
loop_HaltOnError(m, lockAfter, valid) ==
    LET m1 == loopLoad(m)
        m2 == loopDrain(m1, lockAfter)
        m3 == loopTicks(m2)
        m4 == loopTelemetry(m3)
    IN  IF m3.flags # 0 THEN m3 ELSE loopTimeCheck(m4, valid)

\* a loop that resets the fresh-input flag at the end of every iteration
loop_ResetEachIteration(m, lockAfter, valid) ==
    LET m1 == loopLoad(m)
        m2 == loopDrain(m1, lockAfter)
        m3 == loopTicks(m2)
        m4 == loopTelemetry(m3)
        m5 == loopTimeCheck(m4, valid)
    IN  [m5 EXCEPT !.active = FALSE]

\* a loop running the time-check task ahead of the telemetry task
loop_TimeCheckFirst(m, lockAfter, valid) ==
    LET m1 == loopLoad(m)
        m2 == loopDrain(m1, lockAfter)
        m3 == loopTicks(m2)
        m4 == loopTimeCheck(m3, valid)
    IN  loopTelemetry(m4)

\* void loop()
loop(m, lockAfter, valid) ==
    LET m1 == loopLoad(m)
        m2 == loopDrain(m1, lockAfter)
        m3 == loopTicks(m2)
        m4 == loopTelemetry(m3)
    IN  loopTimeCheck(m4, valid)

----------------------------------------------------------------------------
(* The state machine *)

\* the machine state an operation starts from; its output starts empty
Cur ==
    [flags |-> s_errorFlags, beepOn |-> BEEP_ON_ERROR,
     loaded |-> settingsLoaded, eeprom |-> eeprom, pos |-> savePos,
     door |-> doorSettings, light |-> lightSettings, avail |-> gpsAvail,
     active |-> s_gpsDataStreamActive, locked |-> m_GPSLocked,
     heartbeat |-> g_heartbeat, telTimer |-> g_telemetryUpdateTimer,
     tcTimer |-> g_timeCheckTimer, calls |-> calls, lastSet |-> lastSet,
     out |-> << >>]

Commit(m) ==
    /\ s_errorFlags' = m.flags
    /\ BEEP_ON_ERROR' = m.beepOn
    /\ settingsLoaded' = m.loaded
    /\ eeprom' = m.eeprom
    /\ savePos' = m.pos
    /\ doorSettings' = m.door
    /\ lightSettings' = m.light
    /\ gpsAvail' = m.avail
    /\ s_gpsDataStreamActive' = m.active
    /\ m_GPSLocked' = m.locked
    /\ g_heartbeat' = m.heartbeat
    /\ g_telemetryUpdateTimer' = m.telTimer
    /\ g_timeCheckTimer' = m.tcTimer
    /\ calls' = m.calls
    /\ lastSet' = m.lastSet
    /\ trace' = m.out

\* the globals as constructed and as setup() leaves them
Booted(beepOn, store) ==
    [flags |-> 0, beepOn |-> beepOn, loaded |-> FALSE, eeprom |-> store,
     pos |-> StoreStart, door |-> DoorDefault, light |-> LightDefault,
     avail |-> 0, active |-> FALSE, locked |-> FALSE, heartbeat |-> FALSE,
     telTimer |-> TimerStart(TELEMETRY_UPDATE),
     tcTimer |-> TimerStart(TIME_CHECK_UPDATE_NO_GPS_LOCK),
     calls |-> << >>, lastSet |-> [k \in ErrorKinds |-> FALSE],
     out |-> << >>]

Init ==
    \E beepOn \in BOOLEAN :
        LET m == Booted(beepOn, [version |-> 0, cells |-> BlankCells]) IN
        /\ s_errorFlags = m.flags
        /\ BEEP_ON_ERROR = m.beepOn
        /\ settingsLoaded = m.loaded
        /\ eeprom = m.eeprom
        /\ savePos = m.pos
        /\ doorSettings = m.door
        /\ lightSettings = m.light
        /\ gpsAvail = m.avail
        /\ s_gpsDataStreamActive = m.active
        /\ m_GPSLocked = m.locked
        /\ g_heartbeat = m.heartbeat
        /\ g_telemetryUpdateTimer = m.telTimer
        /\ g_timeCheckTimer = m.tcTimer
        /\ calls = m.calls
        /\ lastSet = m.lastSet
        /\ trace = m.out

\* one iteration of loop()
Loop == \E lockAfter \in BOOLEAN, valid \in BOOLEAN :
            Commit(loop(Cur, lockAfter, valid))

\* time passes the deadline of a running timer
TelemetryTimerExpire ==
    /\ g_telemetryUpdateTimer.state = "running"
    /\ Commit([Cur EXCEPT !.telTimer.state = "expired"])

TimeCheckTimerExpire ==
    /\ g_timeCheckTimer.state = "running"
    /\ Commit([Cur EXCEPT !.tcTimer.state = "expired"])

\* the receiver delivers n more bytes to GPS_SERIAL
ArrivalSizes == {(GPSDataSize - 1) \div 2, GPSDataSize - 1, GPSDataSize}
GPSArrive ==
    \E n \in ArrivalSizes :
        /\ gpsAvail + n <= MaxPending
        /\ Commit([Cur EXCEPT !.avail = gpsAvail + n])

\* a caller of reportError(k, set)
ReportErrorCall(k, set) == Commit(reportError(Cur, k, set))

\* the kinds collaborators report while the loop runs; the loop itself owns
\* telemetry_error_GPS_no_data
NumCollabKinds == 1
CollabKinds == { k \in ErrorKinds :
                    /\ telemetryErrorE(k) > 1
                    /\ telemetryErrorE(k) <= Pow2(NumCollabKinds) }
CollabReport == \E k \in CollabKinds, set \in BOOLEAN : ReportErrorCall(k, set)

AnyReport == \E k \in ErrorKinds, set \in BOOLEAN : ReportErrorCall(k, set)

\* power-on reset: the globals are constructed again, setup() runs, the
\* persisted region survives
PowerCycle == Commit(Booted(BEEP_ON_ERROR, eeprom))

\* the stored version byte is corrupted
CorruptVersion ==
    \E v \in StoredVersions :
        /\ v # eeprom.version
        /\ Commit([Cur EXCEPT !.eeprom.version = v])

\* a command changes the settings the controllers hold
SettingsChanged ==
    \E d \in SettingValues, l \in SettingValues :
        /\ settingsLoaded
        /\ Commit([Cur EXCEPT !.door = d, !.light = l])

\* a caller of saveSettings(_defaults)
SaveSettingsCall == \E d \in BOOLEAN : Commit(saveSettings(Cur, d))

Next == Loop \/ TelemetryTimerExpire \/ TimeCheckTimerExpire \/ GPSArrive
        \/ CollabReport
Spec == Init /\ [][Next]_vars

\* work is due for the loop: a timer is found expired, so an iteration
\* changes the state
LoopDue == \/ g_telemetryUpdateTimer.state = "expired"
           \/ g_timeCheckTimer.state = "expired"

\* the host calls loop() forever: weak fairness of Loop, its enabledness
\* stated by LoopDue
LoopFair == <>[]LoopDue => []<><<Loop>>_vars

\* the host calls loop() forever and time keeps passing
SpecLive == /\ Spec
            /\ LoopFair
            /\ WF_vars(TelemetryTimerExpire)
            /\ WF_vars(TimeCheckTimerExpire)

NextErr == AnyReport
SpecErr == Init /\ [][NextErr]_vars

NextSettings == Loop \/ PowerCycle \/ CorruptVersion \/ SettingsChanged
                \/ SaveSettingsCall
SpecSettings == Init /\ [][NextSettings]_vars

----------------------------------------------------------------------------
(* Reading the histories *)

HasBit(w, k) == BitAnd(w, telemetryErrorE(k)) # 0

EventsOf(tr, name) == { i \in 1 .. Len(tr) : tr[i].ev = name }
NumEvents(tr, name) == Cardinality(EventsOf(tr, name))
NumDiag(tr, k, set) ==
    Cardinality({ i \in EventsOf(tr, "diag") :
                    tr[i].kind = k /\ tr[i].set = set })

\* the last two calls were reportError(k, true), reportError(k, true)
SetTwice == /\ Len(calls) = 2
            /\ calls[1].kind = calls[2].kind
            /\ calls[1].set /\ calls[2].set

LastCall == calls[Len(calls)]
NoEffect(c) == c.out = << >> /\ c.post = c.pre

\* the most recent call asked to clear a bit that was clear
ReClear == /\ Len(calls) >= 1
           /\ ~LastCall.set
           /\ ~HasBit(LastCall.pre, LastCall.kind)

----------------------------------------------------------------------------
(* C1 as stated: from every register state, reportError(k, true) twice in a
   row gives exactly one diagnostic line and exactly one beep, the second
   call having no effect; reportError(k, false) on a clear bit gives no
   line, no beep and no change. *)
C1_AsStated ==
    /\ SetTwice =>
          /\ NumEvents(calls[1].out, "diag") + NumEvents(calls[2].out, "diag") = 1
          /\ NumEvents(calls[1].out, "beep") + NumEvents(calls[2].out, "beep") = 1
          /\ NoEffect(calls[2])
    /\ ReClear => NoEffect(LastCall)

(* C1 amended: the second of two reportError(k, true) calls in a row never
   has an effect; when k's bit was clear before the first call the two calls
   give exactly one diagnostic line and, in a build with BEEP_ON_ERROR, one
   beep (none in a build without it; nothing at all when the bit was already
   set); reportError(k, false) on a clear bit gives no line, no beep and no
   change to the register. *)
C1_Idempotent ==
    /\ SetTwice =>
          /\ NoEffect(calls[2])
          /\ NumEvents(calls[1].out, "diag") =
                (IF HasBit(calls[1].pre, calls[1].kind) THEN 0 ELSE 1)
          /\ NumEvents(calls[1].out, "beep") =
                (IF ~HasBit(calls[1].pre, calls[1].kind) /\ BEEP_ON_ERROR
                 THEN 1 ELSE 0)
    /\ ReClear => NoEffect(LastCall) /\ s_errorFlags = LastCall.pre

C1_Witness ==
    /\ SetTwice
    /\ ~HasBit(calls[1].pre, calls[1].kind)
    /\ BEEP_ON_ERROR
    /\ calls[1].pre # 0

(* C2: for every kind k the bit of k in the error-flag word is 1 exactly
   when the most recent reportError call for k asked to set it, and 0 when k
   was never reported. *)
C2_BitIsLastReport ==
    \A k \in ErrorKinds : HasBit(s_errorFlags, k) <=> lastSet[k]

C2_Witness ==
    /\ Len(calls) = 2
    /\ ~calls[1].set /\ HasBit(calls[1].pre, calls[1].kind)
    /\ calls[2].set /\ calls[2].kind # calls[1].kind
    /\ \E k \in ErrorKinds : lastSet[k] /\ k # calls[2].kind

----------------------------------------------------------------------------
(* Reading a step of the control loop *)

NoData == "telemetry_error_GPS_no_data"

\* this step is an iteration in which the time-check task fires
TimeCheckFires ==
    g_timeCheckTimer.state = "expired" /\ g_timeCheckTimer'.state = "running"

\* no byte was read since the previous firing and none is waiting now
Silent == ~s_gpsDataStreamActive /\ gpsAvail = 0

TimerStarts(tr, name) ==
    { i \in EventsOf(tr, "timer.start") : tr[i].timer = name }

\* the most recent iteration fired the time-check task
TimeCheckFired == TimerStarts(trace, "g_timeCheckTimer") # {}
TelemetryFired == TimerStarts(trace, "g_telemetryUpdateTimer") # {}

(* C3: the no-data bit changes only at a time-check firing; a firing after a
   silent interval leaves it set and is a set-transition (one diagnostic
   line) only if it was clear, so any run of silent intervals sets it once;
   a firing after bytes were read leaves it clear and is a clear-transition
   only if it was set, so any run of active intervals clears it once. *)
C3_NoDataOnce ==
    [][ /\ TimeCheckFires /\ Silent =>
            /\ HasBit(s_errorFlags', NoData)
            /\ NumDiag(trace', NoData, TRUE) =
                   (IF HasBit(s_errorFlags, NoData) THEN 0 ELSE 1)
            /\ NumDiag(trace', NoData, FALSE) = 0
        /\ TimeCheckFires /\ ~Silent =>
            /\ ~HasBit(s_errorFlags', NoData)
            /\ NumDiag(trace', NoData, FALSE) =
                   (IF HasBit(s_errorFlags, NoData) THEN 1 ELSE 0)
            /\ NumDiag(trace', NoData, TRUE) = 0
        /\ ~TimeCheckFires =>
            /\ HasBit(s_errorFlags', NoData) = HasBit(s_errorFlags, NoData)
            /\ NumDiag(trace', NoData, TRUE) = 0
            /\ NumDiag(trace', NoData, FALSE) = 0
      ]_vars

\* a second silent firing in a row while unlocked: the bit stays set and
\* nothing is printed
C3_Witness ==
    /\ TimeCheckFired
    /\ NumEvents(trace, "gps.clear") = 1
    /\ NumEvents(trace, "diag") = 0
    /\ HasBit(s_errorFlags, NoData)
    /\ ~m_GPSLocked
    /\ g_timeCheckTimer.period = TIME_CHECK_UPDATE_NO_GPS_LOCK

\* the fix state the period is chosen from: what the last parse of this
\* iteration left, or the state before the iteration when nothing was read
LockAtFiring ==
    LET parses == EventsOf(trace', "parse") IN
    IF parses = {} THEN m_GPSLocked
    ELSE trace'[CHOOSE i \in parses : \A j \in parses : j <= i].locked

(* C4: every time-check firing restarts the timer with 5000 ms when the fix
   is unlocked and with 60000 ms when it is locked, the fix state being the
   one at that firing; a fix that locked since the previous firing gets
   60000 ms on this very firing. *)
C4_AdaptiveRearm ==
    [][ TimeCheckFires =>
            /\ g_timeCheckTimer'.period =
                   (IF LockAtFiring THEN 60000 ELSE 5000)
            /\ \E i \in TimerStarts(trace', "g_timeCheckTimer") :
                   trace'[i].period = g_timeCheckTimer'.period
            /\ Cardinality(TimerStarts(trace', "g_timeCheckTimer")) = 1
      ]_vars

\* the firing that follows the fix locking: re-armed 60000 after 5000
C4_Witness ==
    \E i \in TimerStarts(trace, "g_timeCheckTimer") :
        /\ trace[i].old = 5000
        /\ trace[i].period = 60000
        /\ g_timeCheckTimer.period = 60000

----------------------------------------------------------------------------
(* Reading a load of the settings *)

\* this step is the iteration that runs loadSettings
LoadRuns == ~settingsLoaded /\ settingsLoaded'

EvNames(tr) == [i \in 1 .. Len(tr) |-> tr[i].ev]
Loads(tr) == EventsOf(tr, "door.loadSettings") \cup EventsOf(tr, "light.loadSettings")
Saves(tr) == EventsOf(tr, "door.saveSettings") \cup EventsOf(tr, "light.saveSettings")

\* header update, rewind, door defaults, light defaults, and only then the
\* rewind and the two loads
DefaultPassThenLoad(tr) ==
    /\ Len(tr) >= 7
    /\ SubSeq(EvNames(tr), 1, 7) =
          << "updateHeader", "rewind", "door.saveSettings",
             "light.saveSettings", "rewind", "door.loadSettings",
             "light.loadSettings" >>
    /\ tr[1].ver = GARYCOOPER_DATA_VERSION
    /\ tr[3].defaults /\ tr[4].defaults
    /\ Loads(tr) = {6, 7}

(* C5: when loadSettings finds a stored version different from
   GARYCOOPER_DATA_VERSION, the whole default-write pass (header update,
   rewind, door defaults, light defaults) comes before the first
   sub-component load, and every sub-component load reads a region whose
   stored version is the expected one. *)
C5_DefaultsBeforeRead ==
    [][ LoadRuns =>
            /\ eeprom.version # GARYCOOPER_DATA_VERSION =>
                   DefaultPassThenLoad(trace')
            /\ Loads(trace') # {}
            /\ \A i \in Loads(trace') :
                   trace'[i].ver = GARYCOOPER_DATA_VERSION
      ]_vars

\* a load that had to write the defaults first
C5_Witness ==
    /\ settingsLoaded
    /\ DefaultPassThenLoad(trace)
    /\ eeprom.version = GARYCOOPER_DATA_VERSION

(* C6: when the stored version equals GARYCOOPER_DATA_VERSION, loadSettings
   updates no header, calls no sub-component saveSettings and leaves the
   persisted region as it was. *)
C6_NoDefaultsOnMatch ==
    [][ LoadRuns /\ eeprom.version = GARYCOOPER_DATA_VERSION =>
            /\ EventsOf(trace', "updateHeader") = {}
            /\ Saves(trace') = {}
            /\ eeprom' = eeprom
      ]_vars

\* a load of a region with the expected version that holds custom values
C6_Witness ==
    /\ settingsLoaded
    /\ Loads(trace) # {}
    /\ EventsOf(trace, "updateHeader") = {}
    /\ doorSettings # DoorDefault
    /\ lightSettings # LightDefault

(* C7: a load that wrote the defaults first leaves the door and the light
   controller with exactly their defaults: each controller loads from the
   position its defaults were saved at, door first and light second, both
   passes starting from the rewound cursor; this also holds when the region
   held other values and only the version byte was corrupted. *)
C7_RoundTrip ==
    (Saves(trace) # {} /\ Loads(trace) # {}) =>
        /\ doorSettings = DoorDefault
        /\ lightSettings = LightDefault
        /\ \E ds \in EventsOf(trace, "door.saveSettings"),
              ls \in EventsOf(trace, "light.saveSettings"),
              dl \in EventsOf(trace, "door.loadSettings"),
              ll \in EventsOf(trace, "light.loadSettings") :
                /\ ds < ls /\ ls < dl /\ dl < ll
                /\ trace[ds].pos = StoreStart
                /\ trace[dl].pos = trace[ds].pos
                /\ trace[ll].pos = trace[ls].pos
                /\ trace[dl].val = DoorDefault
                /\ trace[ll].val = LightDefault

\* the reload after a corrupted version byte: the defaults overwrote
\* custom values that an earlier save had stored
C7_Witness ==
    /\ DefaultPassThenLoad(trace)
    /\ trace[3].old \notin {DoorDefault, BlankCells[1]}
    /\ trace[4].old \notin {LightDefault, BlankCells[2]}
    /\ doorSettings = DoorDefault
    /\ lightSettings = LightDefault

----------------------------------------------------------------------------
(* Telemetry framing *)

\* scan of the core's telemetry calls from event i on, open telling whether
\* a transmission is open: a start needs none open, a term and an end need
\* one open, and none may be open at the end
RECURSIVE Framed(_, _, _)
Framed(tr, i, open) ==
    IF i > Len(tr) THEN ~open
    ELSE CASE tr[i].ev = "transmissionStart" -> ~open /\ Framed(tr, i + 1, TRUE)
           [] tr[i].ev = "sendTerm"          -> open /\ Framed(tr, i + 1, TRUE)
           [] tr[i].ev = "transmissionEnd"   -> open /\ Framed(tr, i + 1, FALSE)
           [] OTHER                          -> Framed(tr, i + 1, open)

(* C8: in every iteration each sendTerm of the core lies between a
   transmissionStart and its transmissionEnd, no transmissionStart is issued
   while a transmission is open, and none is open when the iteration ends. *)
C8_Framing == Framed(trace, 1, FALSE)

\* a telemetry firing: the version transmission, then the error-flag one
C8_Witness ==
    /\ TelemetryFired
    /\ NumEvents(trace, "transmissionStart") = 2
    /\ NumEvents(trace, "transmissionEnd") = 2
    /\ NumEvents(trace, "sendTerm") = 4

----------------------------------------------------------------------------
\* the most recent operation was an iteration of the loop
LoopRan == NumEvents(trace, "g_doorController.tick") > 0

(* C9: whatever the error flags, the fix state and the astronomy result,
   an iteration leaves no timer expired (a timer found expired is restarted
   in that iteration), and with loop() called again and again while time
   passes both the telemetry task and the time-check task fire infinitely
   often. *)
C9_NeverHalts ==
    /\ [](LoopRan => /\ g_telemetryUpdateTimer.state = "running"
                     /\ g_timeCheckTimer.state = "running")
    /\ []<>TelemetryFired
    /\ []<>TimeCheckFired

\* both tasks fire in an iteration with errors standing and an invalid time
C9_Witness ==
    /\ TelemetryFired /\ TimeCheckFired
    /\ HasBit(s_errorFlags, NoData)
    /\ \E k \in CollabKinds : HasBit(s_errorFlags, k)
    /\ \E i \in EventsOf(trace, "processGPSData") : ~trace[i].valid

----------------------------------------------------------------------------
\* the call c changed the bit of its kind
SetTransition(c)   == c.set /\ ~HasBit(c.pre, c.kind)
ClearTransition(c) == ~c.set /\ HasBit(c.pre, c.kind)

Beeps(c) == { i \in EventsOf(c.out, "beep") : TRUE }
ClearOk(c) ==
    /\ ~HasBit(c.post, c.kind)
    /\ NumDiag(c.out, c.kind, FALSE) = 1
    /\ NumEvents(c.out, "diag") = 1
    /\ Beeps(c) = {}

\* two set-transitions beep the same number of times only for the same kind
UniqueCounts ==
    (Len(calls) = 2 /\ SetTransition(calls[1]) /\ SetTransition(calls[2])
        /\ Beeps(calls[1]) # {} /\ Beeps(calls[2]) # {}) =>
        \A i \in Beeps(calls[1]), j \in Beeps(calls[2]) :
            /\ calls[1].out[i].n >= 1
            /\ (calls[1].out[i].n = calls[2].out[j].n)
                  <=> (calls[1].kind = calls[2].kind)

(* C10 as stated: every set-transition updates the word, prints one line
   and triggers exactly one beep whose repeat count belongs to that kind
   alone; every clear-transition updates the word and prints one line
   without a beep. *)
C10_AsStated ==
    /\ \A n \in 1 .. Len(calls) :
          /\ SetTransition(calls[n]) =>
                /\ HasBit(calls[n].post, calls[n].kind)
                /\ NumDiag(calls[n].out, calls[n].kind, TRUE) = 1
                /\ Cardinality(Beeps(calls[n])) = 1
          /\ ClearTransition(calls[n]) => ClearOk(calls[n])
    /\ UniqueCounts

(* C10 amended: every set-transition updates the word and prints one line;
   in a build with BEEP_ON_ERROR it triggers exactly one beep whose repeat
   count belongs to that kind alone, in a build without BEEP_ON_ERROR it
   triggers none; every clear-transition updates the word and prints one
   line without a beep. *)
C10_Transitions ==
    /\ \A n \in 1 .. Len(calls) :
          /\ SetTransition(calls[n]) =>
                /\ HasBit(calls[n].post, calls[n].kind)
                /\ NumDiag(calls[n].out, calls[n].kind, TRUE) = 1
                /\ NumEvents(calls[n].out, "diag") = 1
                /\ Cardinality(Beeps(calls[n])) =
                      (IF BEEP_ON_ERROR THEN 1 ELSE 0)
          /\ ClearTransition(calls[n]) => ClearOk(calls[n])
    /\ UniqueCounts

\* two set-transitions of different kinds that both beeped, then heard apart
C10_Witness ==
    /\ Len(calls) = 2
    /\ SetTransition(calls[1]) /\ SetTransition(calls[2])
    /\ calls[1].kind # calls[2].kind
    /\ Beeps(calls[1]) # {} /\ Beeps(calls[2]) # {}

----------------------------------------------------------------------------
(* Reading a telemetry firing *)

\* this step is an iteration in which the telemetry task fires
TelemetryFires ==
    /\ g_telemetryUpdateTimer.state = "expired"
    /\ g_telemetryUpdateTimer'.state = "running"

\* position of the n-th event named name in tr
NthEvent(tr, name, n) ==
    CHOOSE i \in EventsOf(tr, name) :
        Cardinality({ j \in EventsOf(tr, name) : j <= i }) = n

\* the terms of a firing are the two version terms, the error-flag tag and
\* the word; the error-flag transmission is start, tag, word, end
ErrorFlagTransmission(tr, word) ==
    /\ NumEvents(tr, "sendTerm") = 4
    /\ tr[NthEvent(tr, "sendTerm", 1)].term # "telemetry_tag_error_flags"
    /\ tr[NthEvent(tr, "sendTerm", 2)].term # "telemetry_tag_error_flags"
    /\ LET t == NthEvent(tr, "sendTerm", 3) IN
          /\ tr[t].term = "telemetry_tag_error_flags"
          /\ tr[t - 1].ev = "transmissionStart"
          /\ tr[t + 1].ev = "sendTerm"
          /\ tr[t + 1].term = word
          /\ tr[t + 2].ev = "transmissionEnd"

(* C11: every firing of the telemetry task emits exactly one error-flag
   transmission, whose scalar is the error-flag register as it stands when
   the transmission is emitted; an iteration without a firing emits none. *)
C11_LiveBitmask ==
    [][ /\ TelemetryFires => ErrorFlagTransmission(trace', s_errorFlags)
        /\ ~TelemetryFires => NumEvents(trace', "sendTerm") = 0
      ]_vars

\* a firing that broadcast a word with the no-data bit and another bit set
C11_Witness ==
    /\ TelemetryFired
    /\ NumEvents(trace, "sendTerm") = 4
    /\ HasBit(trace[NthEvent(trace, "sendTerm", 4)].term, NoData)
    /\ \E k \in CollabKinds :
          HasBit(trace[NthEvent(trace, "sendTerm", 4)].term, k)

----------------------------------------------------------------------------
\* the events of the settings store and of the controllers' save and load
SettingsEvents ==
    { "updateHeader", "rewind", "door.saveSettings", "light.saveSettings",
      "door.loadSettings", "light.loadSettings" }

SettingsWork(tr) == { i \in 1 .. Len(tr) : tr[i].ev \in SettingsEvents }

\* tr starts with one complete load and does nothing with the settings after
LoadComesFirst(tr) ==
    /\ NumEvents(tr, "door.loadSettings") = 1
    /\ NumEvents(tr, "light.loadSettings") = 1
    /\ LET last == NthEvent(tr, "light.loadSettings", 1) IN
          SettingsWork(tr) = 1 .. last

(* C12: the first iteration runs loadSettings once, before the input drain,
   the ticks and the timed tasks, and sets settingsLoaded; no iteration
   completes with the latch unset; once set the latch stays set and no later
   iteration touches the settings store again. *)
C12_LoadOnce ==
    [][ /\ (~settingsLoaded /\ LoopRan') =>
               settingsLoaded' /\ LoadComesFirst(trace')
        /\ ~settingsLoaded' => ~LoopRan'
        /\ settingsLoaded =>
               settingsLoaded' /\ SettingsWork(trace') = {}
      ]_vars

\* a later iteration: both tasks fire, the settings are not loaded again
C12_Witness ==
    /\ settingsLoaded
    /\ TelemetryFired /\ TimeCheckFired
    /\ NumEvents(trace, "parse") > 0
    /\ SettingsWork(trace) = {}

----------------------------------------------------------------------------
(* Reading the input drain *)

\* bytes handed to the parser by the events of tr from position i on
RECURSIVE ParsedFrom(_, _)
ParsedFrom(tr, i) ==
    IF i > Len(tr) THEN 0
    ELSE (IF tr[i].ev = "parse" THEN tr[i].len ELSE 0) + ParsedFrom(tr, i + 1)

(* C13 as stated: one iteration hands the parser at most one scratch buffer
   of bytes, leaving what does not fit for a later iteration. *)
C13_AsStated ==
    /\ NumEvents(trace, "parse") <= 1
    /\ ParsedFrom(trace, 1) <= 255

(* C13 amended: each read of the drain hands the parser at most 255 bytes
   (the scratch buffer less one), and the drain repeats within the same
   iteration until no byte is waiting: an iteration that finds n bytes
   parses all n of them, in as many reads as 255-byte pieces are needed, and
   leaves none for a later iteration. *)
C13_DrainsAll ==
    [][ LoopRan' =>
            /\ gpsAvail' = 0
            /\ ParsedFrom(trace', 1) = gpsAvail
            /\ NumEvents(trace', "parse") = (gpsAvail + 254) \div 255
            /\ \A i \in EventsOf(trace', "parse") :
                   trace'[i].len >= 1 /\ trace'[i].len <= 255
      ]_vars

\* 256 bytes were waiting: a full read of 255, then a second read of 1
C13_Witness ==
    /\ LoopRan
    /\ NumEvents(trace, "parse") = 2
    /\ trace[NthEvent(trace, "parse", 1)].len = 255
    /\ trace[NthEvent(trace, "parse", 2)].len = 1
    /\ gpsAvail = 0

----------------------------------------------------------------------------
\* what only the telemetry task does
TelemetryWork(tr) ==
    { i \in 1 .. Len(tr) :
        \/ tr[i].ev \in { "heartbeat", "transmissionStart", "sendTerm",
                          "transmissionEnd", "g_sunCalc.sendTelemetry",
                          "g_doorController.sendTelemetry",
                          "g_lightController.sendTelemetry" }
        \/ i \in TimerStarts(tr, "g_telemetryUpdateTimer") }

\* the thirteen steps of a firing, from position first of tr on
TelemetrySteps(tr, first, beat) ==
    /\ TelemetryWork(tr) = first .. first + 12
    /\ SubSeq(EvNames(tr), first, first + 12) =
          << "heartbeat", "timer.start",
             "transmissionStart", "sendTerm", "sendTerm", "transmissionEnd",
             "transmissionStart", "sendTerm", "sendTerm", "transmissionEnd",
             "g_sunCalc.sendTelemetry", "g_doorController.sendTelemetry",
             "g_lightController.sendTelemetry" >>
    /\ tr[first].on = beat
    /\ tr[first + 1].timer = "g_telemetryUpdateTimer"
    /\ tr[first + 1].period = 2000
    /\ tr[first + 3].term = "telemetry_tag_version"
    /\ tr[first + 4].term = "TELEMETRY_VERSION_01"
    /\ tr[first + 7].term = "telemetry_tag_error_flags"

(* C14: a firing of the telemetry task toggles the heartbeat, restarts the
   telemetry timer with 2000 ms, sends the version transmission, the
   error-flag transmission and then calls the astronomy, door and light
   telemetry hooks, in this order and each once, right after the ticks; an
   iteration whose telemetry timer is not expired does none of this. *)
C14_TelemetryOrder ==
    [][ /\ TelemetryFires =>
            /\ TelemetrySteps(trace',
                   NthEvent(trace', "g_doorController.tick", 1) + 1,
                   ~g_heartbeat)
            /\ g_heartbeat' = ~g_heartbeat
            /\ g_telemetryUpdateTimer'.period = 2000
        /\ ~TelemetryFires =>
            /\ TelemetryWork(trace') = {}
            /\ g_heartbeat' = g_heartbeat
            /\ g_telemetryUpdateTimer'.period = g_telemetryUpdateTimer.period
      ]_vars

\* a second firing: the heartbeat is back off and the thirteen steps follow
\* the four ticks of an iteration that read nothing
C14_Witness ==
    /\ LoopRan /\ settingsLoaded
    /\ NumEvents(trace, "parse") = 0
    /\ TelemetrySteps(trace, 5, FALSE)
    /\ ~g_heartbeat

----------------------------------------------------------------------------
CheckTimes(tr) ==
    EventsOf(tr, "g_doorController.checkTime")
        \cup EventsOf(tr, "g_lightController.checkTime")

(* C15: every time-check firing feeds the fix data to the astronomy
   collaborator exactly once; when that call reports a valid time the door
   and then the light checkTime follow it, once each, and when it does not
   no checkTime is called; an iteration without a time-check firing calls
   neither processGPSData nor checkTime. *)
C15_CheckTimeGate ==
    [][ /\ TimeCheckFires =>
            /\ NumEvents(trace', "processGPSData") = 1
            /\ LET p == NthEvent(trace', "processGPSData", 1) IN
                  IF trace'[p].valid
                  THEN /\ CheckTimes(trace') = {p + 1, p + 2}
                       /\ trace'[p + 1].ev = "g_doorController.checkTime"
                       /\ trace'[p + 2].ev = "g_lightController.checkTime"
                  ELSE CheckTimes(trace') = {}
        /\ ~TimeCheckFires =>
            /\ NumEvents(trace', "processGPSData") = 0
            /\ CheckTimes(trace') = {}
      ]_vars

\* a firing with a valid time: door checkTime, then light checkTime
C15_Witness ==
    /\ TimeCheckFired
    /\ NumEvents(trace, "processGPSData") = 1
    /\ trace[NthEvent(trace, "processGPSData", 1)].valid
    /\ Cardinality(CheckTimes(trace)) = 2
    /\ trace[Len(trace)].ev = "g_lightController.checkTime"

----------------------------------------------------------------------------
\* the iteration of this step read at least one byte
ReadsBytes == EventsOf(trace', "parse") # {}

(* C16: a step without a time-check firing never clears the fresh-input
   flag and sets it only by a non-empty read; a time-check firing leaves it
   reset, and the flag it tested (the silence branch ran iff it was false)
   is the flag before the iteration or a read of this iteration, so it tells
   whether a non-empty read occurred since the previous firing. *)
C16_FreshInputFlag ==
    [][ /\ ~TimeCheckFires =>
            s_gpsDataStreamActive' = (s_gpsDataStreamActive \/ ReadsBytes)
        /\ TimeCheckFires =>
            /\ ~s_gpsDataStreamActive'
            /\ NumEvents(trace', "gps.clear") =
                   (IF s_gpsDataStreamActive \/ ReadsBytes THEN 0 ELSE 1)
        /\ \A i \in EventsOf(trace', "parse") : trace'[i].len >= 1
      ]_vars

\* a firing that read nothing itself but found the flag set by an earlier
\* iteration: no silence handling, and the flag is reset
C16_Witness ==
    /\ TimeCheckFired
    /\ NumEvents(trace, "parse") = 0
    /\ NumEvents(trace, "gps.clear") = 0
    /\ ~s_gpsDataStreamActive
    /\ ~HasBit(s_errorFlags, NoData)

----------------------------------------------------------------------------
(* C17: the period is chosen before the silence handling clears the fix: a
   time-check firing after a silent interval restarts the timer first, with
   60000 ms when it finds the fix locked (5000 ms when unlocked), and then
   clears the fix, so a locked fix that went silent is re-armed with 60000
   ms although it is unlocked when the firing ends. *)
C17_PeriodBeforeClear ==
    [][ (TimeCheckFires /\ Silent) =>
            /\ g_timeCheckTimer'.period =
                   (IF m_GPSLocked THEN 60000 ELSE 5000)
            /\ ~m_GPSLocked'
            /\ NumEvents(trace', "gps.clear") = 1
            /\ \A i \in TimerStarts(trace', "g_timeCheckTimer") :
                   i < NthEvent(trace', "gps.clear", 1)
      ]_vars

\* the silent firing of a locked fix: cleared, yet re-armed with 60000
C17_Witness ==
    /\ TimeCheckFired
    /\ NumEvents(trace, "gps.clear") = 1
    /\ NumEvents(trace, "parse") = 0
    /\ g_timeCheckTimer.period = 60000
    /\ ~m_GPSLocked

----------------------------------------------------------------------------
\* this step only damages the stored version byte
OnlyVersionChanges ==
    /\ eeprom'.cells = eeprom.cells
    /\ trace' = << >>
    /\ UNCHANGED <<s_errorFlags, settingsLoaded, savePos, doorSettings,
                   lightSettings, calls, lastSet>>

(* C18: whatever version was stored, after loadSettings the stored version
   is GARYCOOPER_DATA_VERSION; a load writes the defaults exactly when it
   found another version; and the stored version leaves the expected value
   only by a corruption of the version byte, so a load that follows another
   without a corruption in between writes no defaults. *)
C18_VersionRepaired ==
    [][ /\ LoadRuns =>
            /\ eeprom'.version = GARYCOOPER_DATA_VERSION
            /\ (Saves(trace') # {}) <=>
                   (eeprom.version # GARYCOOPER_DATA_VERSION)
        /\ (eeprom.version = GARYCOOPER_DATA_VERSION
              /\ eeprom'.version # GARYCOOPER_DATA_VERSION) =>
                 OnlyVersionChanges
      ]_vars

\* a load that found the expected version and the defaults already stored,
\* and wrote nothing
C18_Witness ==
    /\ settingsLoaded
    /\ Loads(trace) # {}
    /\ Saves(trace) = {}
    /\ eeprom = [version |-> GARYCOOPER_DATA_VERSION,
                 cells |-> <<DoorDefault, LightDefault>>]

----------------------------------------------------------------------------
\* the word broadcast by the telemetry firing recorded in tr
BroadcastWord(tr) == tr[NthEvent(tr, "sendTerm", 4)].term

(* C19: when both timers are expired the telemetry task runs first: the
   error-flag word it broadcasts is the register from before the iteration,
   sent ahead of the time-check restart and of any diagnostic line, so a
   no-data transition made by that firing is not in the word; a time-check
   firing without a telemetry firing broadcasts nothing, which leaves the
   transition to the next telemetry firing. *)
C19_TelemetryBeforeTimeCheck ==
    [][ /\ (TelemetryFires /\ TimeCheckFires) =>
            /\ NumEvents(trace', "sendTerm") = 4
            /\ BroadcastWord(trace') = s_errorFlags
            /\ \A i \in TimerStarts(trace', "g_timeCheckTimer")
                        \cup EventsOf(trace', "diag") :
                   NthEvent(trace', "sendTerm", 4) < i
            /\ HasBit(s_errorFlags', NoData) # HasBit(s_errorFlags, NoData) =>
                   HasBit(BroadcastWord(trace'), NoData)
                       # HasBit(s_errorFlags', NoData)
        /\ (TimeCheckFires /\ ~TelemetryFires) =>
            NumEvents(trace', "sendTerm") = 0
      ]_vars

\* both tasks fired and the no-data error was set: the word sent is stale
C19_Witness ==
    /\ TelemetryFired /\ TimeCheckFired
    /\ NumDiag(trace, NoData, TRUE) = 1
    /\ HasBit(s_errorFlags, NoData)
    /\ NumEvents(trace, "sendTerm") = 4
    /\ ~HasBit(BroadcastWord(trace), NoData)

----------------------------------------------------------------------------
\* the word w without the bit of kind k
OtherBits(w, k) == BitAnd(w, BitNot(telemetryErrorE(k)))

(* C20: a reportError(k, s) call, transition or not, leaves the bit of
   every other kind j as it was: the word after the call differs from the
   word before it at most in the bit of k. *)
C20_OtherBitsKept ==
    \A n \in 1 .. Len(calls) :
        /\ \A j \in ErrorKinds \ {calls[n].kind} :
               HasBit(calls[n].post, j) = HasBit(calls[n].pre, j)
        /\ OtherBits(calls[n].post, calls[n].kind)
               = OtherBits(calls[n].pre, calls[n].kind)
        /\ n = Len(calls) => s_errorFlags = calls[n].post

\* a clear-transition and then a call without effect, both made while the
\* bits of two other kinds were standing
C20_Witness ==
    /\ Len(calls) = 2
    /\ ClearTransition(calls[1])
    /\ NoEffect(calls[2])
    /\ calls[2].kind # calls[1].kind
    /\ Cardinality({ j \in ErrorKinds \ {calls[1].kind, calls[2].kind} :
                        HasBit(s_errorFlags, j) }) >= 2

====
